---- MODULE Spec2Model ----
(***************************************************************************)
(* Student attendance tracker: the persistence adapter (Storage), the      *)
(* identity service (Auth), the roster handlers (App) and the table        *)
(* rendering (UI), as one state machine over the browser's event loop.     *)
(*                                                                         *)
(* Strings are sequences of character codes, so that toLowerCase, trim and *)
(* the fallback password hash are computed as the code computes them.      *)
(* Record ids are pairs <<kind, n>>; the absent id (null) is <<>>.         *)
(***************************************************************************)
EXTENDS Integers, Sequences, FiniteSets, TLC

VARIABLES
  teachers,         \* localStorage attendance_teachers: sequence of Teacher records
  students,         \* localStorage attendance_students: sequence of Student records
  session,          \* localStorage attendance_current_user: <<>> (absent) or <<Session>>
  subtle,           \* whether crypto.subtle exists in this browser context
  quota,            \* localStorage is full: its setItem throws QuotaExceededError
  tasks,            \* digests being computed by crypto.subtle (promises not yet resolved)
  micro,            \* the microtask queue: continuations of resolved awaits, in order
  view,             \* the section on display: "none", "login", "register", "dashboard"
  rows,             \* ids of the rows in studentsTableBody, as last rendered
  stats,            \* the four statistics cards: <<>> (as loaded) or <<counts>> as last rendered
  addOpen,          \* addStudentModal is active
  editOpen,         \* editStudentModal is active
  editId,           \* value of the hidden field editStudentId
  currentDeleteId,  \* App.currentDeleteId
  redirect,         \* a timer that will set window.location.href = '?action=login' is pending
  now,              \* the clock read by new Date()
  nextId,           \* number of identifiers generated so far
  last,             \* the last handler run and how it ended (history)
  registered,       \* the registrations that succeeded: credentials given, id created (history)
  searchInput,      \* the text in the searchInput field
  courseSelect,     \* the value selected in the courseFilter select
  searchTimeout,    \* App.searchTimeout: the handle of the last debounce timer, 0 before the first
  searchTimers,     \* handles of the debounce timers set and neither fired nor cleared
  alerts,           \* the alert elements in messageContainer, in document order
  timers,           \* the timers set by UI.showMessage and UI.closeMessage that have not fired
  item,             \* the text a foreign script left under a key of localStorage, <<>> if none
  got               \* what Storage.getItem last returned for that key

store == <<teachers, students, session>>
loop  == <<tasks, micro>>
dom   == <<view, rows, stats, addOpen, editOpen, editId, currentDeleteId, redirect>>
controls == <<searchInput, courseSelect, searchTimeout, searchTimers>>
banner   == <<alerts, timers>>
foreign  == <<item, got>>
vars  == <<teachers, students, session, subtle, quota, tasks, micro, view, rows, stats, addOpen,
           editOpen, editId, currentDeleteId, redirect, now, nextId, last, registered,
           searchInput, courseSelect, searchTimeout, searchTimers, alerts, timers, item, got>>

\* ------------------------------------------------------------------ bounds

\* registrations accepted, students added, digests in flight at a time
MaxRegistrations == 2
MaxAdded == 1
MaxPending == 2

\* notifications on display at a time, and the clock reading up to which
\* notifications are shown
MaxAlerts == 2
MaxClock == 2

\* the length of the texts a foreign script leaves in localStorage
MaxText == 3

\* ----------------------------------------------------------------- strings

Range(s) == {s[i] : i \in DOMAIN s}

\* String.prototype.toLowerCase on the ASCII range: 'A'..'Z' -> 'a'..'z'
toLowerCase(s) ==
  [i \in DOMAIN s |-> IF s[i] >= 65 /\ s[i] <= 90 THEN s[i] + 32 ELSE s[i]]

\* the white space String.prototype.trim removes (space, tab, LF, CR)
IsSpace(c) == c \in {32, 9, 10, 13}

RECURSIVE trimStart(_)
trimStart(s) ==
  IF s # <<>> /\ IsSpace(Head(s)) THEN trimStart(Tail(s)) ELSE s

RECURSIVE trimEnd(_)
trimEnd(s) ==
  IF s # <<>> /\ IsSpace(s[Len(s)]) THEN trimEnd(SubSeq(s, 1, Len(s) - 1)) ELSE s

trim(s) == trimEnd(trimStart(s))

\* String.prototype.includes
includes(s, q) ==
  \E i \in 0..(Len(s) - Len(q)) : SubSeq(s, i + 1, i + Len(q)) = q

\* parseInt(text): leading white space, an optional sign, then the longest run
\* of decimal digits; <<>> stands for NaN (no digits), otherwise <<n>>
IsDigit(c) == c >= 48 /\ c <= 57

RECURSIVE digitsValue(_, _)
digitsValue(s, acc) ==
  IF s # <<>> /\ IsDigit(Head(s))
    THEN digitsValue(Tail(s), 10 * acc + (Head(s) - 48))
    ELSE acc

parseInt(text) ==
  LET s    == trimStart(text)
      neg  == s # <<>> /\ Head(s) = 45
      body == IF s # <<>> /\ Head(s) \in {43, 45} THEN Tail(s) ELSE s
  IN  IF body = <<>> \/ ~IsDigit(Head(body)) THEN <<>>
      ELSE <<(IF neg THEN -1 ELSE 1) * digitsValue(body, 0)>>

\* JavaScript truthiness of a string and of a parseInt result (NaN and 0 are falsy)
Truthy(s) == s # <<>>
TruthyNumNotNaN(n) == n # <<>>
TruthyNum(n) == n # <<>> /\ n[1] # 0

\* ----------------------------------------------------------------- hashing

\* SHA-256 rendered as hex. The digest is not computed: it is the tag 256
\* followed by the bytes hashed, i.e. a digest that is collision free on the
\* passwords of the model and never equal to a fallback digest (64 hex digits
\* against at most 9 characters).
sha256Hex(password) == <<256>> \o password

\* The fallback: hash = ((hash << 5) - hash) + char; hash = hash & hash, i.e.
\* hash := ToInt32(31 * hash + char), kept as two 16-bit halves <<hi, lo>>.
RECURSIVE rollingHash(_, _)
rollingHash(s, h) ==
  IF s = <<>> THEN h
  ELSE LET lo == 31 * h[2] + Head(s)
           hi == 31 * h[1] + (lo \div 65536)
       IN  rollingHash(Tail(s), <<hi % 65536, lo % 65536>>)

HexDigit(d) == IF d < 10 THEN 48 + d ELSE 87 + d

RECURSIVE hexOf(_)
hexOf(n) == IF n < 16 THEN <<HexDigit(n)>> ELSE Append(hexOf(n \div 16), HexDigit(n % 16))

\* hex of hi * 65536 + lo, without leading zeros
hexOfHalves(hi, lo) ==
  IF hi = 0 THEN hexOf(lo)
  ELSE hexOf(hi) \o <<HexDigit(lo \div 4096), HexDigit((lo \div 256) % 16),
                      HexDigit((lo \div 16) % 16), HexDigit(lo % 16)>>

\* Number.prototype.toString(16) of the signed 32-bit value held in <<hi, lo>>
int32ToHex(h) ==
  IF h[1] < 32768 THEN hexOfHalves(h[1], h[2])
  ELSE LET nlo == (65536 - h[2]) % 65536
           nhi == (65535 - h[1] + (IF h[2] = 0 THEN 1 ELSE 0)) % 65536
       IN  <<45>> \o hexOfHalves(nhi, nlo)

fallbackHash(password) == int32ToHex(rollingHash(password, <<0, 0>>))

\* Storage.hashPassword: the value its promise resolves to
hashPassword(password) ==
  IF subtle THEN sha256Hex(password) ELSE fallbackHash(password)

\* --------------------------------------------------------------- seed data

NullId == <<>>

S_Teacher1 == <<84, 101, 97, 99, 104, 101, 114, 49>>   \* "Teacher1"
S_Teacher2 == <<84, 101, 97, 99, 104, 101, 114, 50>>   \* "Teacher2"
S_Teacher3 == <<84, 101, 97, 99, 104, 101, 114, 51>>   \* "Teacher3"
S_123456   == <<49, 50, 51, 52, 53, 54>>               \* "123456"

\* App.loadSampleData: the three demo teachers; their stored digest is the
\* SHA-256 of "123456" whatever the browser context
sampleTeachers(t) ==
  << [id |-> <<"teacher", 1>>, username |-> S_Teacher1,
      password |-> sha256Hex(S_123456), createdAt |-> t],
     [id |-> <<"teacher", 2>>, username |-> S_Teacher2,
      password |-> sha256Hex(S_123456), createdAt |-> t],
     [id |-> <<"teacher", 3>>, username |-> S_Teacher3,
      password |-> sha256Hex(S_123456), createdAt |-> t] >>

\* App.loadSampleData: the ten demo students
sampleStudents(t) ==
  <<
    [id |-> <<"student", 1>>, teacherId |-> <<"teacher", 1>>,
     name |-> <<74, 111, 104, 110, 32, 83, 109, 105, 116, 104>>,  \* "John Smith"
     studentId |-> <<50, 48, 50, 52, 45, 48, 48, 49>>,  \* "2024-001"
     course |-> <<87, 65, 68>>,  \* "WAD"
     year |-> 3, status |-> "Present", createdAt |-> t],
    [id |-> <<"student", 2>>, teacherId |-> <<"teacher", 1>>,
     name |-> <<69, 109, 109, 97, 32, 74, 111, 104, 110, 115, 111, 110>>,  \* "Emma Johnson"
     studentId |-> <<50, 48, 50, 52, 45, 48, 48, 50>>,  \* "2024-002"
     course |-> <<79, 77, 84>>,  \* "OMT"
     year |-> 2, status |-> "Present", createdAt |-> t],
    [id |-> <<"student", 3>>, teacherId |-> <<"teacher", 1>>,
     name |-> <<77, 105, 99, 104, 97, 101, 108, 32, 66, 114, 111, 119, 110>>,  \* "Michael Brown"
     studentId |-> <<50, 48, 50, 52, 45, 48, 48, 51>>,  \* "2024-003"
     course |-> <<87, 65, 68>>,  \* "WAD"
     year |-> 3, status |-> "Absent", createdAt |-> t],
    [id |-> <<"student", 4>>, teacherId |-> <<"teacher", 2>>,
     name |-> <<83, 97, 114, 97, 104, 32, 68, 97, 118, 105, 115>>,  \* "Sarah Davis"
     studentId |-> <<50, 48, 50, 52, 45, 48, 48, 52>>,  \* "2024-004"
     course |-> <<72, 77>>,  \* "HM"
     year |-> 1, status |-> "Present", createdAt |-> t],
    [id |-> <<"student", 5>>, teacherId |-> <<"teacher", 2>>,
     name |-> <<74, 97, 109, 101, 115, 32, 87, 105, 108, 115, 111, 110>>,  \* "James Wilson"
     studentId |-> <<50, 48, 50, 52, 45, 48, 48, 53>>,  \* "2024-005"
     course |-> <<72, 82, 84>>,  \* "HRT"
     year |-> 4, status |-> "Unmarked", createdAt |-> t],
    [id |-> <<"student", 6>>, teacherId |-> <<"teacher", 2>>,
     name |-> <<76, 105, 115, 97, 32, 65, 110, 100, 101, 114, 115, 111, 110>>,  \* "Lisa Anderson"
     studentId |-> <<50, 48, 50, 52, 45, 48, 48, 54>>,  \* "2024-006"
     course |-> <<66, 83, 73, 84>>,  \* "BSIT"
     year |-> 2, status |-> "Absent", createdAt |-> t],
    [id |-> <<"student", 7>>, teacherId |-> <<"teacher", 3>>,
     name |-> <<82, 111, 98, 101, 114, 116, 32, 84, 97, 121, 108, 111, 114>>,  \* "Robert Taylor"
     studentId |-> <<50, 48, 50, 52, 45, 48, 48, 55>>,  \* "2024-007"
     course |-> <<66, 83, 72, 77>>,  \* "BSHM"
     year |-> 1, status |-> "Present", createdAt |-> t],
    [id |-> <<"student", 8>>, teacherId |-> <<"teacher", 3>>,
     name |-> <<74, 101, 110, 110, 105, 102, 101, 114, 32, 76, 101, 101>>,  \* "Jennifer Lee"
     studentId |-> <<50, 48, 50, 52, 45, 48, 48, 56>>,  \* "2024-008"
     course |-> <<79, 65, 84>>,  \* "OAT"
     year |-> 3, status |-> "Present", createdAt |-> t],
    [id |-> <<"student", 9>>, teacherId |-> <<"teacher", 3>>,
     name |-> <<68, 97, 118, 105, 100, 32, 77, 97, 114, 116, 105, 110, 101, 122>>,  \* "David Martinez"
     studentId |-> <<50, 48, 50, 52, 45, 48, 48, 57>>,  \* "2024-009"
     course |-> <<87, 65, 68>>,  \* "WAD"
     year |-> 2, status |-> "Unmarked", createdAt |-> t],
    [id |-> <<"student", 10>>, teacherId |-> <<"teacher", 1>>,
     name |-> <<77, 97, 114, 105, 97, 32, 71, 97, 114, 99, 105, 97>>,  \* "Maria Garcia"
     studentId |-> <<50, 48, 50, 52, 45, 48, 49, 48>>,  \* "2024-010"
     course |-> <<79, 77, 84>>,  \* "OMT"
     year |-> 4, status |-> "Absent", createdAt |-> t]
  >>

\* ------------------------------------------------- storage and pure helpers

\* Array.prototype.find / findIndex, given the indices that satisfy the test:
\* the first of them, 0 if there is none
findIndex(matching) ==
  IF matching = {} THEN 0
  ELSE CHOOSE i \in matching : \A j \in matching : i <= j

\* Storage.generateId: a version-4 UUID, taken to differ from every id in use
generateId(n) == <<"uuid", n + 1>>

\* Storage.setItem: <<the value under the key afterwards, the flag returned>>;
\* a write that the store rejects is caught, and the old value stays
setItemUnguarded(stored, data) == <<data, TRUE>>
setItem(stored, data) == IF quota THEN <<stored, FALSE>> ELSE <<data, TRUE>>

\* Auth.getCurrentTeacherId
getCurrentTeacherId(sess) == IF sess = <<>> THEN NullId ELSE sess[1].id

\* Auth.requireAuth: whether a Session exists
requireAuthAlways(sess) == TRUE
requireAuth(sess) == sess # <<>>

\* Auth.register, the test for an existing username
usernameTakenExact(ts, username) ==
  \E i \in DOMAIN ts : ts[i].username = username
usernameTaken(ts, username) ==
  \E i \in DOMAIN ts : toLowerCase(ts[i].username) = toLowerCase(username)

\* Auth.login, the lookup: index of the first teacher with this username
\* (case-insensitively) and this digest, 0 if there is none
loginFindByUsername(ts, username, digest) ==
  findIndex({i \in DOMAIN ts : toLowerCase(ts[i].username) = toLowerCase(username)})
loginFind(ts, username, digest) ==
  findIndex({i \in DOMAIN ts : /\ toLowerCase(ts[i].username) = toLowerCase(username)
                                /\ ts[i].password = digest})

\* Auth.getCurrentTeacher: <<>> (null) without a Session or without a teacher
\* of the Session's id, otherwise that teacher without its password
getCurrentTeacher(sess, ts) ==
  IF sess = <<>> THEN <<>>
  ELSE LET i == findIndex({k \in DOMAIN ts : ts[k].id = sess[1].id})
       IN  IF i = 0 THEN <<>>
           ELSE <<[f \in DOMAIN ts[i] \ {"password"} |-> ts[i][f]]>>

\* Auth.login, the Session written: the teacher without its password
sessionUserWhole(t) == t
sessionUser(t) == [id |-> t.id, username |-> t.username, createdAt |-> t.createdAt]

\* App.handleAddStudent, the duplicate test
addDuplicateAnyTeacher(studs, teacherId, studentId) ==
  \E i \in DOMAIN studs : toLowerCase(studs[i].studentId) = toLowerCase(studentId)
addDuplicate(studs, teacherId, studentId) ==
  \E i \in DOMAIN studs :
     /\ studs[i].teacherId = teacherId
     /\ toLowerCase(studs[i].studentId) = toLowerCase(studentId)

\* App.handleEditStudent, the duplicate test (the edited record excluded)
editDuplicate(studs, id, teacherId, studentIdInput) ==
  \E i \in DOMAIN studs :
     /\ studs[i].id # id
     /\ studs[i].teacherId = teacherId
     /\ toLowerCase(studs[i].studentId) = toLowerCase(studentIdInput)

\* App.handleEditStudent, the record written: the stored one with its four
\* editable fields replaced
editedStudentRebuilt(student, name, studentIdInput, course, year) ==
  [id |-> student.id, teacherId |-> student.teacherId, name |-> name,
   studentId |-> studentIdInput, course |-> course, year |-> year,
   status |-> "Unmarked", createdAt |-> student.createdAt]
editedStudent(student, name, studentIdInput, course, year) ==
  [student EXCEPT !.name = name, !.studentId = studentIdInput,
                  !.course = course, !.year = year]

\* App.handleToggleAttendance, the new status
toggledThreeWay(currentStatus) ==
  IF currentStatus = "Present" THEN "Absent"
  ELSE IF currentStatus = "Absent" THEN "Unmarked" ELSE "Present"
toggledAlwaysPresent(currentStatus) == "Present"
toggled(currentStatus) == IF currentStatus = "Present" THEN "Absent" ELSE "Present"

\* App.handleDeleteConfirm, the collection without the record
without(studs, id) == LET Keep(s) == s.id # id IN SelectSeq(studs, Keep)

\* UI.renderStudentsTable, the students listed for a teacher, a search text
\* and a course filter
listStudentsOfAll(studs, teacherId, searchQuery, courseFilter) ==
  LET Match(s) == \/ includes(toLowerCase(s.name), toLowerCase(searchQuery))
                  \/ includes(toLowerCase(s.studentId), toLowerCase(searchQuery))
      Course(s) == s.course = courseFilter
      found == IF Truthy(searchQuery) THEN SelectSeq(studs, Match) ELSE studs
  IN  IF Truthy(courseFilter) THEN SelectSeq(found, Course) ELSE found
listStudents(studs, teacherId, searchQuery, courseFilter) ==
  LET Own(s) == s.teacherId = teacherId
      Match(s) == \/ includes(toLowerCase(s.name), toLowerCase(searchQuery))
                  \/ includes(toLowerCase(s.studentId), toLowerCase(searchQuery))
      Course(s) == s.course = courseFilter
      own == SelectSeq(studs, Own)
      found == IF Truthy(searchQuery) THEN SelectSeq(own, Match) ELSE own
  IN  IF Truthy(courseFilter) THEN SelectSeq(found, Course) ELSE found

\* UI.renderStudentsTable: the rows of the table afterwards; without a Session
\* the function returns before it touches the table
renderStudentsTable(studs, sess, searchQuery, courseFilter, oldRows) ==
  IF getCurrentTeacherId(sess) = NullId THEN oldRows
  ELSE LET l == listStudents(studs, getCurrentTeacherId(sess), searchQuery, courseFilter)
       IN  [i \in DOMAIN l |-> l[i].id]

\* UI.updateStats: the counts written to the statistics cards
updateStatsMarked(list) ==
  LET Count(status) == Cardinality({i \in DOMAIN list : list[i].status = status})
  IN  [total |-> Count("Present") + Count("Absent"), present |-> Count("Present"),
       absent |-> Count("Absent"), unmarked |-> Count("Unmarked")]
updateStats(list) ==
  LET Count(status) == Cardinality({i \in DOMAIN list : list[i].status = status})
  IN  [total |-> Len(list), present |-> Count("Present"),
       absent |-> Count("Absent"), unmarked |-> Count("Unmarked")]

\* UI.renderStudentsTable: the statistics cards afterwards
renderStats(studs, sess, searchQuery, courseFilter, oldStats) ==
  IF getCurrentTeacherId(sess) = NullId THEN oldStats
  ELSE <<updateStats(listStudents(studs, getCurrentTeacherId(sess), searchQuery,
                                  courseFilter))>>

\* what a handler leaves in `last`
Did(op, outcome, args, id, was) ==
  [op |-> op, outcome |-> outcome, args |-> args, id |-> id, was |-> was]

\* -------------------------------------------------------------- event loop

\* an await of Storage.hashPassword: with crypto.subtle the digest is computed
\* off the event loop and the continuation waits in `tasks`; the fallback hash
\* is computed at once and the continuation is queued as a microtask
Job(kind, origin, username, password, snapshot, id) ==
  [kind |-> kind, origin |-> origin, username |-> username, password |-> password,
   snapshot |-> snapshot, id |-> id]

awaitHash(job, queue, pending) ==
  IF subtle THEN <<pending \cup {job}, queue>>
  ELSE <<pending, Append(queue, job)>>

\* a user event is taken only between tasks: the microtask queue is empty
Idle == micro = <<>>
UserEvent == Idle

\* the bounds of the model: a registration more (one in flight counts), a
\* student more, a digest more in flight
CanRegister ==
  nextId + Cardinality({j \in tasks : j.kind = "register"}) < MaxRegistrations
CanAdd == nextId - Cardinality(registered) < MaxAdded
CanAwait == Cardinality(tasks) < MaxPending

\* App.handleRouting for the action of the URL; yields <<view, rows, redirect>>
handleRouting(action, sess, studs, oldView, oldRows, oldRedirect) ==
  CASE action = "register" -> <<"register", oldRows, oldRedirect>>
    [] action = "dashboard" ->
         IF requireAuth(sess)
           THEN <<"dashboard", renderStudentsTable(studs, sess, <<>>, <<>>, oldRows),
                  oldRedirect>>
           ELSE <<oldView, oldRows, TRUE>>
    [] OTHER -> <<"login", oldRows, oldRedirect>>

\* App.handleRouting, the statistics cards afterwards: UI.renderDashboard
\* renders the table when the guard passes
routedStats(action, sess, studs, oldStats) ==
  IF action = "dashboard" /\ requireAuth(sess)
    THEN renderStats(studs, sess, <<>>, <<>>, oldStats)
    ELSE oldStats

RouteActions == {"login", "register", "dashboard"}

\* A page load: Storage.initialize, new App(), App.initialize (routing) and
\* App.loadSampleData. Everything but localStorage starts afresh.
Load(action) ==
  LET empty == Len(teachers) = 0 /\ Len(students) = 0
      r == handleRouting(action, session, students, "none", <<>>, FALSE)
  IN  /\ teachers' = IF empty THEN setItem(teachers, sampleTeachers(now))[1] ELSE teachers
      /\ students' = IF empty THEN setItem(students, sampleStudents(now))[1] ELSE students
      /\ session' = session
      /\ tasks' = {}
      /\ micro' = <<>>
      /\ view' = r[1]
      /\ rows' = r[2]
      /\ stats' = routedStats(action, session, students, <<>>)
      /\ redirect' = r[3]
      /\ addOpen' = FALSE
      /\ editOpen' = FALSE
      /\ editId' = NullId
      /\ currentDeleteId' = NullId
      /\ searchInput' = <<>>
      /\ courseSelect' = <<>>
      /\ searchTimeout' = 0
      /\ searchTimers' = {}
      /\ alerts' = <<>>
      /\ timers' = {}
      /\ UNCHANGED <<subtle, quota, foreign, now, nextId, registered>>

\* the user opens or reloads the page at some URL
PageLoad(action) ==
  /\ UserEvent
  /\ Load(action)
  /\ last' = Did("load", "ok", <<>>, NullId, "")

\* the timer set by Auth.logout or Auth.requireAuth fires
Redirect ==
  /\ Idle
  /\ redirect
  /\ Load("login")
  /\ last' = Did("redirect", "ok", <<>>, NullId, "")

\* the store runs out of room, or room is made (by another page of the origin)
StorageQuota(full) ==
  /\ quota # full
  /\ quota' = full
  /\ UNCHANGED <<store, subtle, controls, banner, foreign, loop, dom, now, nextId, last,
                 registered>>

\* crypto.subtle.digest resolves: the awaiting function resumes as a microtask
HashResolved(job) ==
  /\ Idle
  /\ job \in tasks
  /\ tasks' = tasks \ {job}
  /\ micro' = <<job>>
  /\ UNCHANGED <<store, subtle, quota, controls, banner, foreign, dom, now, nextId, last, registered>>

\* ---------------------------------------------------------------- identity

\* App.handleRegister up to its await, with Auth.register up to its await
HandleRegister(username, password, confirmPassword) ==
  /\ UserEvent
  /\ view = "register"
  /\ LET outcome ==
           IF password # confirmPassword THEN "mismatch"
           ELSE IF ~Truthy(username) \/ Len(trim(username)) < 3 THEN "validation"
           ELSE IF ~Truthy(password) \/ Len(password) < 4 THEN "validation"
           ELSE IF usernameTaken(teachers, username) THEN "conflict"
           ELSE "pending"
         q == awaitHash(Job("register", "form", username, password, teachers, NullId),
                        micro, tasks)
     IN  /\ outcome = "pending" => CanRegister /\ CanAwait
         /\ tasks' = IF outcome = "pending" THEN q[1] ELSE tasks
         /\ micro' = IF outcome = "pending" THEN q[2] ELSE micro
         /\ last' = Did("register", outcome, <<username>>, NullId, "")
  /\ UNCHANGED <<store, subtle, quota, controls, banner, foreign, dom, now, nextId, registered>>

\* Auth.register after its await: the teacher is appended to the snapshot read
\* before the await and saved, Auth.login is called and not awaited, and the
\* promise resolves, which queues the rest of App.handleRegister
RegisterResume ==
  LET job == Head(micro)
      newTeacher == [id |-> generateId(nextId), username |-> trim(job.username),
                     password |-> hashPassword(job.password), createdAt |-> now]
      loginOk == Truthy(job.username) /\ Truthy(job.password)
      q == awaitHash(Job("login", "auto", job.username, job.password, <<>>, NullId),
                     Tail(micro), tasks)
      route == Job("routeRegister", "form", job.username, job.password, <<>>, newTeacher.id)
  IN  /\ micro # <<>> /\ job.kind = "register"
      /\ teachers' = setItem(teachers, Append(job.snapshot, newTeacher))[1]
      /\ nextId' = nextId + 1
      /\ tasks' = IF loginOk THEN q[1] ELSE tasks
      /\ micro' = Append(IF loginOk THEN q[2] ELSE Tail(micro), route)
      /\ registered' = registered \cup
            {[username |-> job.username, password |-> job.password,
              id |-> newTeacher.id,
              taken |-> usernameTaken(teachers, trim(job.username))]}
      /\ last' = Did("registered", "ok", <<job.username>>, newTeacher.id, "")
      /\ UNCHANGED <<students, session, subtle, quota, controls, banner, foreign, dom, now>>

\* App.handleRegister after its await: updateURL('dashboard'), handleRouting
RegisterRoute ==
  LET job == Head(micro)
      r == handleRouting("dashboard", session, students, view, rows, redirect)
  IN  /\ micro # <<>> /\ job.kind = "routeRegister"
      /\ micro' = Tail(micro)
      /\ view' = r[1]
      /\ rows' = r[2]
      /\ stats' = routedStats("dashboard", session, students, stats)
      /\ redirect' = r[3]
      /\ last' = Did("routeRegister", IF requireAuth(session) THEN "ok" ELSE "auth",
                     <<job.username>>, job.id, "")
      /\ UNCHANGED <<store, subtle, quota, controls, banner, foreign, tasks, addOpen, editOpen, editId, currentDeleteId,
                     now, nextId, registered>>

\* App.handleLogin up to its await, with Auth.login up to its await
HandleLogin(username, password) ==
  /\ UserEvent
  /\ view = "login"
  /\ LET valid == Truthy(username) /\ Truthy(password)
         q == awaitHash(Job("login", "form", username, password, <<>>, NullId), micro, tasks)
     IN  /\ valid => CanAwait
         /\ tasks' = IF valid THEN q[1] ELSE tasks
         /\ micro' = IF valid THEN q[2] ELSE micro
         /\ last' = Did("loginSubmit", IF valid THEN "pending" ELSE "validation",
                        <<username>>, NullId, "")
  /\ UNCHANGED <<store, subtle, quota, controls, banner, foreign, dom, now, nextId, registered>>

\* Auth.login after its await: the lookup in the teachers stored now, and the
\* Session written; a login made by the form queues the rest of App.handleLogin
LoginResume ==
  LET job == Head(micro)
      i == loginFind(teachers, job.username, hashPassword(job.password))
      route == Job("routeLogin", "form", job.username, job.password, <<>>, NullId)
  IN  /\ micro # <<>> /\ job.kind = "login"
      /\ session' = IF i = 0 THEN session
                     ELSE setItem(session, <<sessionUser(teachers[i])>>)[1]
      /\ micro' = IF i # 0 /\ job.origin = "form" THEN Append(Tail(micro), route)
                  ELSE Tail(micro)
      /\ last' = Did(IF job.origin = "form" THEN "login" ELSE "autoLogin",
                     IF i = 0 THEN "auth" ELSE "ok", <<job.username>>,
                     IF i = 0 THEN NullId ELSE teachers[i].id, "")
      /\ UNCHANGED <<teachers, students, subtle, quota, controls, banner, foreign, tasks, dom, now, nextId,
                     registered>>

\* App.handleLogin after its await: updateURL('dashboard'), handleRouting
LoginRoute ==
  LET job == Head(micro)
      r == handleRouting("dashboard", session, students, view, rows, redirect)
  IN  /\ micro # <<>> /\ job.kind = "routeLogin"
      /\ micro' = Tail(micro)
      /\ view' = r[1]
      /\ rows' = r[2]
      /\ stats' = routedStats("dashboard", session, students, stats)
      /\ redirect' = r[3]
      /\ last' = Did("routeLogin", IF requireAuth(session) THEN "ok" ELSE "auth",
                     <<job.username>>, NullId, "")
      /\ UNCHANGED <<store, subtle, quota, controls, banner, foreign, tasks, addOpen, editOpen, editId, currentDeleteId,
                     now, nextId, registered>>

\* a logout that leaves the Session to the redirect
LogoutByRedirect ==
  /\ UserEvent
  /\ view = "dashboard"
  /\ session' = session
  /\ redirect' = TRUE
  /\ last' = Did("logout", "ok", <<>>, getCurrentTeacherId(session), "")
  /\ UNCHANGED <<teachers, students, subtle, quota, controls, banner, foreign, loop, view, rows, stats, addOpen, editOpen,
                 editId, currentDeleteId, now, nextId, registered>>

\* Auth.logout, the click on logoutBtn; `last` keeps the id of the Session cleared
Logout ==
  /\ UserEvent
  /\ view = "dashboard"
  /\ session' = <<>>
  /\ redirect' = TRUE
  /\ last' = Did("logout", "ok", <<>>, getCurrentTeacherId(session), "")
  /\ UNCHANGED <<teachers, students, subtle, quota, controls, banner, foreign, loop, view, rows, stats, addOpen, editOpen,
                 editId, currentDeleteId, now, nextId, registered>>

\* ------------------------------------------------------------------ roster

\* the click on addStudentBtn: UI.showModal('addStudentModal')
OpenAddModal ==
  /\ UserEvent
  /\ view = "dashboard"
  /\ ~addOpen
  /\ addOpen' = TRUE
  /\ last' = Did("openAdd", "ok", <<>>, NullId, "")
  /\ UNCHANGED <<store, subtle, quota, controls, banner, foreign, loop, view, rows, stats, editOpen, editId, currentDeleteId,
                 redirect, now, nextId, registered>>

\* App.handleAddStudent, the submit of addStudentForm
HandleAddStudent(nameIn, studentIdIn, course, yearIn) ==
  /\ UserEvent
  /\ addOpen
  /\ LET teacherId == getCurrentTeacherId(session)
         name == trim(nameIn)
         studentId == trim(studentIdIn)
         year == parseInt(yearIn)
         outcome ==
           IF teacherId = NullId THEN "session"
           ELSE IF ~Truthy(name) \/ ~Truthy(studentId) \/ ~Truthy(course)
                   \/ ~TruthyNum(year) THEN "validation"
           ELSE IF addDuplicate(students, teacherId, studentId) THEN "conflict"
           ELSE "ok"
         newStudent == [id |-> generateId(nextId), teacherId |-> teacherId,
                        name |-> name, studentId |-> studentId, course |-> course,
                        year |-> year[1], status |-> "Unmarked", createdAt |-> now]
     IN  /\ outcome = "ok" => CanAdd
         /\ students' = IF outcome = "ok"
                          THEN setItem(students, Append(students, newStudent))[1]
                          ELSE students
         /\ nextId' = IF outcome = "ok" THEN nextId + 1 ELSE nextId
         /\ addOpen' = (outcome # "ok")
         /\ rows' = IF outcome = "ok"
                      THEN renderStudentsTable(students', session, <<>>, <<>>, rows)
                      ELSE rows
         /\ stats' = IF outcome = "ok"
                       THEN renderStats(students', session, <<>>, <<>>, stats)
                       ELSE stats
         /\ last' = Did("add", outcome, <<studentId>>,
                        IF outcome = "ok" THEN newStudent.id ELSE NullId, "")
  /\ UNCHANGED <<teachers, session, subtle, quota, controls, banner, foreign, loop, view, editOpen, editId,
                 currentDeleteId, redirect, now, registered>>

\* App.handleTableAction 'edit': App.handleEditStudentModal fills and shows the form
HandleEditStudentModal(id) ==
  /\ UserEvent
  /\ view = "dashboard"
  /\ id \in Range(rows)
  /\ LET found == \E i \in DOMAIN students : students[i].id = id
     IN  /\ editId' = IF found THEN id ELSE editId
         /\ editOpen' = IF found THEN TRUE ELSE editOpen
         /\ last' = Did("openEdit", IF found THEN "ok" ELSE "notfound", <<>>, id, "")
  /\ UNCHANGED <<store, subtle, quota, controls, banner, foreign, loop, view, rows, stats, addOpen, currentDeleteId, redirect,
                 now, nextId, registered>>

\* App.handleEditStudent, the submit of editStudentForm
HandleEditStudent(nameIn, studentIdIn, course, yearIn) ==
  /\ UserEvent
  /\ editOpen
  /\ LET name == trim(nameIn)
         studentIdInput == trim(studentIdIn)
         year == parseInt(yearIn)
         teacherId == getCurrentTeacherId(session)
         studentIndex == findIndex({i \in DOMAIN students : students[i].id = editId})
         outcome ==
           IF ~Truthy(name) \/ ~Truthy(studentIdInput) \/ ~Truthy(course)
              \/ ~TruthyNum(year) THEN "validation"
           ELSE IF studentIndex = 0 THEN "notfound"
           ELSE IF editDuplicate(students, editId, teacherId, studentIdInput)
             THEN "conflict"
           ELSE "ok"
     IN  /\ students' =
               IF outcome = "ok"
                 THEN setItem(students,
                              [students EXCEPT ![studentIndex] =
                                 editedStudent(@, name, studentIdInput, course, year[1])])[1]
                 ELSE students
         /\ editOpen' = (outcome # "ok")
         /\ rows' = IF outcome = "ok"
                      THEN renderStudentsTable(students', session, <<>>, <<>>, rows)
                      ELSE rows
         /\ stats' = IF outcome = "ok"
                       THEN renderStats(students', session, <<>>, <<>>, stats)
                       ELSE stats
         /\ last' = Did("edit", outcome, <<studentIdInput>>, editId, "")
  /\ UNCHANGED <<teachers, session, subtle, quota, controls, banner, foreign, loop, view, addOpen, editId,
                 currentDeleteId, redirect, now, nextId, registered>>

\* App.handleTableAction 'toggle': App.handleToggleAttendance
HandleToggleAttendance(studentId) ==
  /\ UserEvent
  /\ view = "dashboard"
  /\ studentId \in Range(rows)
  /\ LET studentIndex == findIndex({i \in DOMAIN students : students[i].id = studentId})
         currentStatus == students[studentIndex].status
     IN  /\ students' = IF studentIndex = 0 THEN students
                        ELSE setItem(students,
                                     [students EXCEPT ![studentIndex].status =
                                        toggled(currentStatus)])[1]
         /\ rows' = IF studentIndex = 0 THEN rows
                    ELSE renderStudentsTable(students', session, <<>>, <<>>, rows)
         /\ stats' = IF studentIndex = 0 THEN stats
                     ELSE renderStats(students', session, <<>>, <<>>, stats)
         /\ last' = IF studentIndex = 0
                      THEN Did("toggle", "notfound", <<>>, studentId, "")
                      ELSE Did("toggle", "ok", <<>>, studentId, currentStatus)
  /\ UNCHANGED <<teachers, session, subtle, quota, controls, banner, foreign, loop, view, addOpen, editOpen, editId,
                 currentDeleteId, redirect, now, nextId, registered>>

\* App.handleTableAction 'delete': App.handleDeleteStudent shows the confirmation
HandleDeleteStudent(studentId) ==
  /\ UserEvent
  /\ view = "dashboard"
  /\ studentId \in Range(rows)
  /\ currentDeleteId' = studentId
  /\ last' = Did("openDelete", "ok", <<>>, studentId, "")
  /\ UNCHANGED <<store, subtle, quota, controls, banner, foreign, loop, view, rows, stats, addOpen, editOpen, editId, redirect,
                 now, nextId, registered>>

\* a handle that no timer of the set has
freshHandle(pending) == CHOOSE n \in 1..(Cardinality(pending) + 1) : n \notin pending

\* App.handleSearch, the timers: clearTimeout(this.searchTimeout), then
\* setTimeout; yields <<the debounce timers pending, the handle kept>>
debounceUncleared(pending, handle) ==
  <<pending \cup {freshHandle(pending)}, freshHandle(pending)>>
debounce(pending, handle) ==
  LET cleared == pending \ {handle}
  IN  <<cleared \cup {freshHandle(cleared)}, freshHandle(cleared)>>

\* App.handleFilter, the change of the courseFilter select to a course: the
\* table is rendered for the text in searchInput and the course selected
HandleFilter(searchText, course) ==
  /\ UserEvent
  /\ view = "dashboard"
  /\ searchText = searchInput
  /\ courseSelect' = course
  /\ rows' = renderStudentsTable(students, session, trim(searchText), course, rows)
  /\ stats' = renderStats(students, session, trim(searchText), course, stats)
  /\ last' = Did("filter", "ok", <<trim(searchText), course>>, NullId, "")
  /\ UNCHANGED <<store, subtle, quota, searchInput, searchTimeout, searchTimers, banner,
                 foreign, loop, view, addOpen, editOpen, editId, currentDeleteId,
                 redirect, now, nextId, registered>>

\* App.handleSearch, the input event on searchInput: the pending debounce
\* timer is cleared and a new one is set; nothing is rendered
HandleSearchInput(text) ==
  /\ UserEvent
  /\ view = "dashboard"
  /\ searchInput' = text
  /\ searchTimers' = debounce(searchTimers, searchTimeout)[1]
  /\ searchTimeout' = debounce(searchTimers, searchTimeout)[2]
  /\ last' = Did("input", "ok", <<text>>, NullId,
                 IF searchTimers # {} THEN "pending" ELSE "")
  /\ UNCHANGED <<store, subtle, quota, courseSelect, banner, foreign, loop, dom, now,
                 nextId, registered>>

\* App.handleSearch, the callback of a debounce timer: the table is rendered
\* for the text then in searchInput and the course then selected
HandleSearch(searchText, course) ==
  /\ Idle
  /\ searchTimers # {}
  /\ searchText = searchInput
  /\ course = courseSelect
  /\ \E handle \in searchTimers : searchTimers' = searchTimers \ {handle}
  /\ rows' = renderStudentsTable(students, session, trim(searchText), course, rows)
  /\ stats' = renderStats(students, session, trim(searchText), course, stats)
  /\ last' = Did("search", "ok", <<trim(searchText), course>>, NullId,
                 IF last.op = "input" THEN last.was ELSE "")
  /\ UNCHANGED <<store, subtle, quota, searchInput, courseSelect, searchTimeout, banner,
                 foreign, loop, view, addOpen, editOpen, editId, currentDeleteId,
                 redirect, now, nextId, registered>>

\* the handler without its not-found test, removing by splice(studentIndex, 1):
\* an index of -1 removes the last record
HandleDeleteConfirmUnchecked ==
  /\ UserEvent
  /\ currentDeleteId # NullId
  /\ LET studentIndex == findIndex({i \in DOMAIN students :
                                       students[i].id = currentDeleteId})
         at == IF studentIndex = 0 THEN Len(students) ELSE studentIndex
     IN  /\ students' = setItem(students, SubSeq(students, 1, at - 1)
                                          \o SubSeq(students, at + 1, Len(students)))[1]
         /\ currentDeleteId' = NullId
         /\ rows' = renderStudentsTable(students', session, <<>>, <<>>, rows)
         /\ stats' = renderStats(students', session, <<>>, <<>>, stats)
         /\ last' = Did("delete", "ok", <<>>, currentDeleteId, "")
  /\ UNCHANGED <<teachers, session, subtle, quota, controls, banner, foreign, loop, view, addOpen, editOpen, editId,
                 redirect, now, nextId, registered>>

\* App.handleDeleteConfirm, the click on confirmDeleteBtn; without a
\* currentDeleteId the handler returns at once
HandleDeleteConfirm ==
  /\ UserEvent
  /\ currentDeleteId # NullId
  /\ LET studentIndex == findIndex({i \in DOMAIN students :
                                       students[i].id = currentDeleteId})
     IN  /\ students' = IF studentIndex = 0 THEN students
                        ELSE setItem(students, without(students, currentDeleteId))[1]
         /\ currentDeleteId' = IF studentIndex = 0 THEN currentDeleteId ELSE NullId
         /\ rows' = IF studentIndex = 0 THEN rows
                    ELSE renderStudentsTable(students', session, <<>>, <<>>, rows)
         /\ stats' = IF studentIndex = 0 THEN stats
                     ELSE renderStats(students', session, <<>>, <<>>, stats)
         /\ last' = Did("delete", IF studentIndex = 0 THEN "notfound" ELSE "ok",
                        <<>>, currentDeleteId, "")
  /\ UNCHANGED <<teachers, session, subtle, quota, controls, banner, foreign, loop, view, addOpen, editOpen, editId,
                 redirect, now, nextId, registered>>

\* ------------------------------------------------------------ stored text

\* JSON.parse on texts made of the characters [ ] 0: <<the value>>, or <<>>
\* where it throws a SyntaxError. The texts that parse are 0 and the arrays
\* [], [0], [[]], ...; a value is a record of its type and its items
RECURSIVE JSONparse(_)
JSONparse(text) ==
  IF text = <<48>> THEN <<[type |-> "number", items |-> <<>>]>>
  ELSE IF Len(text) >= 2 /\ Head(text) = 91 /\ text[Len(text)] = 93
    THEN LET inner == SubSeq(text, 2, Len(text) - 1)
         IN  IF inner = <<>> THEN <<[type |-> "array", items |-> <<>>]>>
             ELSE IF JSONparse(inner) = <<>> THEN <<>>
             ELSE <<[type |-> "array", items |-> JSONparse(inner)]>>
  ELSE <<>>

\* Storage.getItem on the text under a key (<<>>: no such key, or the empty
\* text): the default for a falsy item and when JSON.parse throws
getItem(stored, defaultValue) ==
  IF stored = <<>> THEN defaultValue
  ELSE IF JSONparse(stored) = <<>> THEN defaultValue
  ELSE JSONparse(stored)[1]

\* Storage.getTeachers, Storage.getStudents: getItem with the default []
getTeachers(stored) == getItem(stored, [type |-> "array", items |-> <<>>])

\* the texts a foreign script (or the developer tools) may leave under the key
RECURSIVE TextsOf(_)
TextsOf(n) ==
  IF n = 0 THEN {<<>>}
  ELSE TextsOf(n - 1) \cup {Append(s, c) : s \in TextsOf(n - 1), c \in {91, 93, 48}}
Texts == TextsOf(MaxText)

\* a script of the origin other than this application writes the key
ForeignWrite(text) ==
  /\ item' = text
  /\ UNCHANGED <<store, subtle, quota, controls, banner, got, loop, dom, now, nextId,
                 last, registered>>

\* Storage.getTeachers is called
GetTeachers ==
  /\ got' = <<getTeachers(item)>>
  /\ UNCHANGED <<store, subtle, quota, controls, banner, item, loop, dom, now, nextId,
                 last, registered>>

\* ---------------------------------------------------------- notifications

\* the duration of UI.showMessage by default and as App.loadSampleData gives
\* it, and the delay of alert.remove() in UI.closeMessage (milliseconds)
DefaultDuration == 5000
DemoDuration == 3000
SlideUp == 300
DurationInputs == {DefaultDuration, DemoDuration}

\* document.getElementById(alertId): the first element with that id, 0 if none
getElementById(els, alertId) ==
  IF \E i \in DOMAIN els : els[i].id = alertId
    THEN els[findIndex({i \in DOMAIN els : els[i].id = alertId})].el
    ELSE 0

\* UI.showMessage: an alert whose id is made of Date.now() is appended to
\* messageContainer, and a timer will call UI.closeMessage with that id
ShowMessage(duration) ==
  LET el == freshHandle({alerts[i].el : i \in DOMAIN alerts}
                        \cup {t.target : t \in {u \in timers : u.kind = "remove"}})
      timer == [n |-> freshHandle({t.n : t \in timers}), kind |-> "close",
                target |-> now, due |-> now + duration]
  IN  /\ Len(alerts) < MaxAlerts
      /\ now <= MaxClock
      /\ alerts' = Append(alerts, [id |-> now, el |-> el, duration |-> duration])
      /\ timers' = IF duration > 0 THEN timers \cup {timer} ELSE timers
      /\ UNCHANGED <<store, subtle, quota, controls, foreign, loop, dom, now, nextId,
                     last, registered>>

\* a timer of UI.showMessage fires: UI.closeMessage(alertId) looks the element
\* up by its id and, if there is one, sets the timer of its removal
CloseMessage(timer) ==
  LET el == getElementById(alerts, timer.target)
      removal == [n |-> freshHandle({t.n : t \in timers \ {timer}}), kind |-> "remove",
                  target |-> el, due |-> now + SlideUp]
  IN  /\ timer \in timers
      /\ timer.kind = "close"
      /\ timer.due <= now
      /\ timers' = IF el = 0 THEN timers \ {timer} ELSE (timers \ {timer}) \cup {removal}
      /\ UNCHANGED <<store, subtle, quota, controls, alerts, foreign, loop, dom, now,
                     nextId, last, registered>>

\* a timer of UI.closeMessage fires: alert.remove()
RemoveAlert(timer) ==
  LET Other(a) == a.el # timer.target
  IN  /\ timer \in timers
      /\ timer.kind = "remove"
      /\ timer.due <= now
      /\ alerts' = SelectSeq(alerts, Other)
      /\ timers' = timers \ {timer}
      /\ UNCHANGED <<store, subtle, quota, controls, foreign, loop, dom, now, nextId,
                     last, registered>>

\* time passes: by a millisecond while notifications are shown, or up to the
\* next timer; no timer is passed over
Tick ==
  /\ now < MaxClock
  /\ \A t \in timers : t.due > now
  /\ now' = now + 1
  /\ UNCHANGED <<store, subtle, quota, controls, banner, foreign, loop, dom, nextId,
                 last, registered>>

Advance ==
  /\ timers # {}
  /\ \A t \in timers : t.due > now
  /\ now' = CHOOSE due \in {t.due : t \in timers} : \A t \in timers : due <= t.due
  /\ UNCHANGED <<store, subtle, quota, controls, banner, foreign, loop, dom, nextId,
                 last, registered>>

\* ------------------------------------------------------------------ inputs

S_teacher1   == <<116, 101, 97, 99, 104, 101, 114, 49>>    \* "teacher1"
S_bob        == <<98, 111, 98>>                            \* "bob"
S_spbob      == <<32, 98, 111, 98>>                        \* " bob"
S_ab         == <<97, 98>>                                 \* "ab"
S_pass       == <<112, 97, 115, 115>>                      \* "pass"
S_abc        == <<97, 98, 99>>                             \* "abc"
S_2024_004   == <<50, 48, 50, 52, 45, 48, 48, 52>>         \* "2024-004"
S_A1         == <<65, 49>>                                 \* "A1"
S_a1sp       == <<97, 49, 32>>                             \* "a1 "
S_AnnLee     == <<65, 110, 110, 32, 76, 101, 101>>         \* "Ann Lee"
S_WAD        == <<87, 65, 68>>                             \* "WAD"
S_3          == <<51>>                                     \* "3"
S_blank      == <<32, 32>>                                 \* "  "
S_0          == <<48>>                                     \* "0"

\* what is typed into the register form: a case variant of a demo teacher's
\* name, a new name, the new name after a space, a name too short; a password
\* and one too short
UsernameInputs == {S_teacher1, S_bob, S_spbob, S_ab}
PasswordInputs == {S_pass, S_abc}

\* what is typed into the login form: a demo teacher with the right and with a
\* wrong password, the two spellings of the new name, and an empty field
LoginInputs == {<<S_teacher1, S_123456>>, <<S_teacher1, S_pass>>, <<S_bob, S_pass>>,
                <<S_spbob, S_pass>>, <<S_bob, <<>>>>}

\* what is typed into the add and edit forms: for the student id of the add
\* form, the id of a student of Teacher2 and a new id; for that of the edit
\* form, the new id in another spelling
NameInputs == {S_AnnLee}
StudentIdInputs == {S_2024_004, S_A1}
EditStudentIdInputs == {S_a1sp}
CourseInputs == {S_WAD}
YearInputs == {S_3}

\* add forms with one field left out: a blank name, a blank student id, no
\* course selected, the year 0
IncompleteAddInputs ==
  {<<S_blank, S_A1, S_WAD, S_3>>, <<S_AnnLee, S_blank, S_WAD, S_3>>,
   <<S_AnnLee, S_A1, <<>>, S_3>>, <<S_AnnLee, S_A1, S_WAD, S_0>>}

\* what is typed into searchInput: nothing, a name in capitals, the start of
\* the demo student ids after a space; and the courses of the filter: none,
\* one that students of Teacher1 and of Teacher3 follow, one of Teacher2 only
S_SMITH      == <<83, 77, 73, 84, 72>>                     \* "SMITH"
S_sp2024_00  == <<32, 50, 48, 50, 52, 45, 48, 48>>         \* " 2024-00"
S_HM         == <<72, 77>>                                 \* "HM"
SearchInputs == {<<>>, S_SMITH, S_sp2024_00}
CourseFilterInputs == {<<>>, S_WAD, S_HM}

\* the rows the user clicks on: a demo student, and the first student added
ClickIds == {<<"student", 1>>, generateId(0)}

\* the account used on the dashboard
RosterLogins == {<<S_Teacher1, S_123456>>}

\* --------------------------------------------------------- the state machine

\* the first page load of a browser whose localStorage is empty
Init ==
  /\ subtle \in BOOLEAN
  /\ quota = FALSE
  /\ searchInput = <<>>
  /\ courseSelect = <<>>
  /\ searchTimeout = 0
  /\ searchTimers = {}
  /\ alerts = <<>>
  /\ timers = {}
  /\ item = <<>>
  /\ got = <<>>
  /\ now = 0
  /\ teachers = sampleTeachers(now)
  /\ students = sampleStudents(now)
  /\ session = <<>>
  /\ tasks = {}
  /\ micro = <<>>
  /\ \E action \in RouteActions :
        LET r == handleRouting(action, <<>>, <<>>, "none", <<>>, FALSE)
        IN  view = r[1] /\ rows = r[2] /\ redirect = r[3]
  /\ stats = <<>>
  /\ addOpen = FALSE
  /\ editOpen = FALSE
  /\ editId = NullId
  /\ currentDeleteId = NullId
  /\ nextId = 0
  /\ registered = {}
  /\ last = Did("load", "ok", <<>>, NullId, "")

\* the event loop: digests resolving, microtasks, the redirect timer
EventLoop ==
  \/ Redirect
  \/ \E job \in tasks : HashResolved(job)
  \/ LoginResume
  \/ LoginRoute

\* the identity service: the login and register forms, logout, page loads
NextAuth ==
  \/ EventLoop
  \/ RegisterResume
  \/ RegisterRoute
  \/ \E action \in RouteActions : PageLoad(action)
  \/ \E u \in UsernameInputs, p \in PasswordInputs, c \in PasswordInputs :
        HandleRegister(u, p, c)
  \/ \E c \in LoginInputs : HandleLogin(c[1], c[2])
  \/ Logout

SpecAuth == Init /\ [][NextAuth]_vars

\* the roster: the dashboard of a demo teacher
NextRoster ==
  \/ EventLoop
  \/ \E c \in RosterLogins : HandleLogin(c[1], c[2])
  \/ Logout
  \/ OpenAddModal
  \/ \E n \in NameInputs, s \in StudentIdInputs, c \in CourseInputs, y \in YearInputs :
        HandleAddStudent(n, s, c, y)
  \/ \E f \in IncompleteAddInputs : HandleAddStudent(f[1], f[2], f[3], f[4])
  \/ \E id \in Range(rows) \cap ClickIds : HandleEditStudentModal(id)
  \/ \E n \in NameInputs, s \in EditStudentIdInputs, c \in CourseInputs, y \in YearInputs :
        HandleEditStudent(n, s, c, y)
  \/ \E id \in Range(rows) \cap ClickIds : HandleToggleAttendance(id)
  \/ \E id \in Range(rows) \cap ClickIds : HandleDeleteStudent(id)
  \/ HandleDeleteConfirm

SpecRoster == Init /\ [][NextRoster]_vars

\* the table: the dashboard of a demo teacher searched and filtered, students
\* added and removed
NextList ==
  \/ EventLoop
  \/ \E c \in RosterLogins : HandleLogin(c[1], c[2])
  \/ Logout
  \/ \E q \in SearchInputs, c \in CourseFilterInputs : HandleFilter(q, c)
  \/ \E q \in SearchInputs : HandleSearchInput(q)
  \/ \E q \in SearchInputs, c \in CourseFilterInputs : HandleSearch(q, c)
  \/ OpenAddModal
  \/ \E n \in NameInputs, s \in EditStudentIdInputs, c \in CourseInputs, y \in YearInputs :
        HandleAddStudent(n, s, c, y)
  \/ \E id \in Range(rows) \cap ClickIds : HandleDeleteStudent(id)
  \/ HandleDeleteConfirm

SpecList == Init /\ [][NextList]_vars

\* the store rejecting writes: a registration, a login, and the roster of a
\* demo teacher, while the store fills and empties
NextQuota ==
  \/ EventLoop
  \/ RegisterResume
  \/ RegisterRoute
  \/ \E full \in BOOLEAN : StorageQuota(full)
  \/ HandleRegister(S_bob, S_pass, S_pass)
  \/ \E c \in RosterLogins : HandleLogin(c[1], c[2])
  \/ OpenAddModal
  \/ \E n \in NameInputs, s \in EditStudentIdInputs, c \in CourseInputs, y \in YearInputs :
        HandleAddStudent(n, s, c, y)
  \/ \E id \in Range(rows) \cap ClickIds : HandleEditStudentModal(id)
  \/ \E n \in NameInputs, s \in EditStudentIdInputs, c \in CourseInputs, y \in YearInputs :
        HandleEditStudent(n, s, c, y)
  \/ \E id \in Range(rows) \cap ClickIds : HandleToggleAttendance(id)
  \/ \E id \in Range(rows) \cap ClickIds : HandleDeleteStudent(id)
  \/ HandleDeleteConfirm

SpecQuota == Init /\ [][NextQuota]_vars

\* new accounts and their rosters: two registrations, the login that follows
\* each, logout, page loads, and the add form
RegisterInputs == {S_bob, S_spbob}

\* the years typed into the add form of a new account: 3 and -1
S_neg1       == <<45, 49>>                                 \* "-1"
SignedYearInputs == {S_3, S_neg1}
NextAccounts ==
  \/ EventLoop
  \/ RegisterResume
  \/ RegisterRoute
  \/ \E action \in RouteActions : PageLoad(action)
  \/ \E u \in RegisterInputs : HandleRegister(u, S_pass, S_pass)
  \/ \E u \in RegisterInputs : HandleLogin(u, S_pass)
  \/ Logout
  \/ OpenAddModal
  \/ \E n \in NameInputs, s \in EditStudentIdInputs, c \in CourseInputs, y \in SignedYearInputs :
        HandleAddStudent(n, s, c, y)

SpecAccounts == Init /\ [][NextAccounts]_vars

\* the notifications: messages are shown, time passes, timers fire; a timer
\* that is due fires, and time does not stand still while timers are pending
NextMessages ==
  \/ \E duration \in DurationInputs : ShowMessage(duration)
  \/ \E timer \in timers : CloseMessage(timer)
  \/ \E timer \in timers : RemoveAlert(timer)
  \/ Tick
  \/ Advance

SpecMessages ==
  /\ Init
  /\ [][NextMessages]_vars
  /\ WF_vars(\E timer \in timers : CloseMessage(timer))
  /\ WF_vars(\E timer \in timers : RemoveAlert(timer))
  /\ WF_vars(Advance)

\* the store read after foreign writes
NextStorage ==
  \/ \E text \in Texts : ForeignWrite(text)
  \/ GetTeachers

SpecStorage == Init /\ [][NextStorage]_vars

\* ------------------------------------------------------------- properties

\* two strings that differ at most in the case of their letters
SameLetter(c, d) ==
  \/ c = d
  \/ c >= 65 /\ c <= 90 /\ d = c + 32
  \/ d >= 65 /\ d <= 90 /\ c = d + 32
DiffersOnlyInCase(a, b) ==
  Len(a) = Len(b) /\ \A i \in DOMAIN a : SameLetter(a[i], b[i])

\* the microtask about to run is the rest of Auth.login
LoginResuming == micro # <<>> /\ Head(micro).kind = "login"

\* C1: for a username of at least 3 characters that is not yet taken and a
\* password of at least 4, once register(username, password) has succeeded, a
\* login with the same credentials succeeds and writes a Session with the id
\* of the Teacher that register created.
C1_RegisterThenLogin ==
  [][\A r \in registered :
       (/\ LoginResuming
        /\ Head(micro).username = r.username
        /\ Head(micro).password = r.password
        /\ ~r.taken)
       => (/\ last'.outcome = "ok"
           /\ session' # <<>>
           /\ session'[1].id = r.id)]_vars

\* C2: when register has completed and handed its result to App.handleRegister,
\* a Session with the new Teacher's id exists, so the auth guard that the
\* handler runs next finds the user authenticated.
C2_RegistrationAuthenticates ==
  last.op = "routeRegister" =>
    (/\ last.outcome = "ok"
     /\ session # <<>>
     /\ session[1].id = last.id)

\* C3: no two Teacher records have usernames that are equal case-insensitively.
C3_UniqueUsernames ==
  \A i, j \in DOMAIN teachers :
     i # j => ~DiffersOnlyInCase(teachers[i].username, teachers[j].username)

\* C4: a registration (its password passing validation, which register checks
\* first) under a username that differs only in letter case from that of an
\* existing Teacher fails with the conflict error, and whatever the password
\* such a call fails and leaves the teachers collection and the Session as
\* they were.
C4_CaseVariantConflict ==
  [][\A u \in UsernameInputs, p \in PasswordInputs :
       (/\ HandleRegister(u, p, p)
        /\ \E i \in DOMAIN teachers : DiffersOnlyInCase(teachers[i].username, u))
       => (/\ last'.outcome = IF Len(p) >= 4 THEN "conflict" ELSE "validation"
           /\ teachers' = teachers
           /\ session' = session
           /\ tasks' = tasks
           /\ micro' = micro)]_vars

C4_Witness ==
  /\ last.op = "register"
  /\ last.outcome = "conflict"
  /\ \E i \in DOMAIN teachers :
        /\ teachers[i].username # last.args[1]
        /\ DiffersOnlyInCase(teachers[i].username, last.args[1])

\* C5: a login under the username of an existing Teacher (case-insensitively)
\* with a password whose digest is not the stored digest of any such Teacher
\* fails with the authentication error, and neither the call nor its
\* completion changes the Session.
C5_WrongPasswordRejected ==
  [][/\ (/\ LoginResuming
         /\ \E i \in DOMAIN teachers :
               DiffersOnlyInCase(teachers[i].username, Head(micro).username)
         /\ \A i \in DOMAIN teachers :
               DiffersOnlyInCase(teachers[i].username, Head(micro).username)
               => teachers[i].password # hashPassword(Head(micro).password))
        => (last'.outcome = "auth" /\ session' = session)
     /\ \A c \in LoginInputs : HandleLogin(c[1], c[2]) => session' = session]_vars

C5_Witness ==
  /\ last.op = "login"
  /\ last.outcome = "auth"
  /\ \E i \in DOMAIN teachers : DiffersOnlyInCase(teachers[i].username, last.args[1])
  /\ session # <<>>

\* C6: no two Student records of the same teacher have studentId values that
\* are equal case-insensitively.
C6_UniqueStudentIdPerTeacher ==
  \A i, j \in DOMAIN students :
     (i # j /\ students[i].teacherId = students[j].teacherId)
     => ~DiffersOnlyInCase(students[i].studentId, students[j].studentId)

\* a student of teacher t, or of another teacher, has this studentId
UsedBy(t, studentId) ==
  \E i \in DOMAIN students :
     /\ students[i].teacherId = t
     /\ DiffersOnlyInCase(students[i].studentId, studentId)
UsedByOther(t, studentId) ==
  \E i \in DOMAIN students :
     /\ students[i].teacherId # t
     /\ DiffersOnlyInCase(students[i].studentId, studentId)

\* C7: an add (by a logged-in teacher, the other fields filled in) with a
\* studentId that a student of the same teacher has, case-insensitively, fails
\* with the conflict error and leaves the students collection unchanged; with
\* a studentId that only students of other teachers have it succeeds and
\* appends the new record.
C7_AddDuplicateScope ==
  [][\A n \in NameInputs, s \in StudentIdInputs, c \in CourseInputs, y \in YearInputs :
       (HandleAddStudent(n, s, c, y) /\ session # <<>>)
       => LET t == session[1].id
          IN  /\ UsedBy(t, trim(s))
                 => (last'.outcome = "conflict" /\ students' = students)
              /\ (UsedByOther(t, trim(s)) /\ ~UsedBy(t, trim(s)))
                 => (/\ last'.outcome = "ok"
                     /\ Len(students') = Len(students) + 1
                     /\ SubSeq(students', 1, Len(students)) = students
                     /\ students'[Len(students')].studentId = trim(s)
                     /\ students'[Len(students')].teacherId = t)]_vars

C7_Witness ==
  /\ last.op = "add"
  /\ last.outcome = "ok"
  /\ students[Len(students)].id = last.id
  /\ UsedByOther(students[Len(students)].teacherId, last.args[1])

\* C8: a Student record is changed or removed only while a Session exists
\* whose id is the record's teacherId.
C8_OwnerOnly ==
  [][\A i \in DOMAIN students :
       students[i] \notin Range(students')
       => (session # <<>> /\ session[1].id = students[i].teacherId)]_vars

C10_DeleteMissing ==
  [][(/\ HandleDeleteConfirm
      /\ \A i \in DOMAIN students : students[i].id # currentDeleteId)
     => (last'.outcome = "notfound" /\ students' = students)]_vars

C10_Witness ==
  /\ last.op = "delete"
  /\ last.outcome = "notfound"
  /\ \A i \in DOMAIN students : students[i].id # last.id

\* C11: a successful edit of a student replaces its name, studentId, course
\* and year by the values submitted and nothing else: its id, teacherId, status
\* and createdAt are as before, it keeps its position, and every other record
\* is unchanged.
C11_EditFrame ==
  [][\A n \in NameInputs, s \in EditStudentIdInputs, c \in CourseInputs, y \in YearInputs :
       (HandleEditStudent(n, s, c, y) /\ last'.outcome = "ok")
       => /\ Len(students') = Len(students)
          /\ \E i \in DOMAIN students :
                /\ students[i].id = editId
                /\ students'[i].id = students[i].id
                /\ students'[i].teacherId = students[i].teacherId
                /\ students'[i].status = students[i].status
                /\ students'[i].createdAt = students[i].createdAt
                /\ students'[i].name = trim(n)
                /\ students'[i].studentId = trim(s)
                /\ students'[i].course = c
                /\ <<students'[i].year>> = parseInt(y)
                /\ \A j \in DOMAIN students : j # i => students'[j] = students[j]]_vars

\* an edit went through on a record that is not Unmarked and not the last of
\* the collection, and the record carries the studentId submitted
C11_Witness ==
  /\ last.op = "edit"
  /\ last.outcome = "ok"
  /\ \E i \in DOMAIN students :
        /\ students[i].id = last.id
        /\ i < Len(students)
        /\ students[i].status # "Unmarked"
        /\ students[i].studentId = last.args[1]
        /\ students[i].name = S_AnnLee

\* the add forms submitted, complete and incomplete
AddInputs ==
  (NameInputs \X StudentIdInputs \X CourseInputs \X YearInputs) \cup IncompleteAddInputs

\* a field of the add form is empty or falsy once read
AddIncomplete(f) ==
  \/ trim(f[1]) = <<>>
  \/ trim(f[2]) = <<>>
  \/ f[3] = <<>>
  \/ parseInt(f[4]) = <<>>
  \/ parseInt(f[4]) = <<0>>

\* the step appends exactly one Student, Unmarked, of the Session's teacher,
\* under an id no stored record has, and leaves the stored records as they were
AppendsOne ==
  /\ Len(students') = Len(students) + 1
  /\ SubSeq(students', 1, Len(students)) = students
  /\ students'[Len(students')].status = "Unmarked"
  /\ session # <<>>
  /\ students'[Len(students')].teacherId = session[1].id
  /\ \A i \in DOMAIN students : students[i].id # students'[Len(students')].id

\* C12 as stated: add fails, changing nothing, when a field is empty or falsy
\* or no Session exists, and in every other case appends exactly one Student
\* (Unmarked, of the Session's teacher, with a new id), the stored records
\* unchanged.
C12_AddOrAppend ==
  [][\A f \in AddInputs :
       HandleAddStudent(f[1], f[2], f[3], f[4])
       => IF AddIncomplete(f) \/ session = <<>>
            THEN last'.outcome # "ok" /\ students' = students
            ELSE last'.outcome = "ok" /\ AppendsOne]_vars

\* C12, amended: add fails, changing nothing, when no Session exists, when a
\* field is empty or falsy (validation error), and when a student of the same
\* teacher has the studentId case-insensitively (conflict error); in every
\* other case it appends exactly one Student (Unmarked, of the Session's
\* teacher, with a new id), the stored records unchanged.
C12_AddValidatesThenAppends ==
  [][\A f \in AddInputs :
       HandleAddStudent(f[1], f[2], f[3], f[4])
       => IF session = <<>>
            THEN last'.outcome = "session" /\ students' = students
          ELSE IF AddIncomplete(f)
            THEN last'.outcome = "validation" /\ students' = students
          ELSE IF UsedBy(session[1].id, trim(f[2]))
            THEN last'.outcome = "conflict" /\ students' = students
          ELSE last'.outcome = "ok" /\ AppendsOne]_vars

\* an add was refused for the year 0 while a Session existed
C12_Witness ==
  /\ last.op = "add"
  /\ last.outcome = "validation"
  /\ session # <<>>
  /\ nextId = 1
  /\ students[Len(students)].status = "Unmarked"
  /\ students[Len(students)].teacherId = session[1].id

\* s contains q, letter case apart
ContainsIgnoringCase(s, q) ==
  \E i \in 0..(Len(s) - Len(q)) : \A k \in 1..Len(q) : SameLetter(s[i + k], q[k])

\* the ids, in stored order, of the students of teacher t whose name or
\* studentId contains q and whose course is c (q, c empty: no restriction)
Listed(t, q, c) ==
  LET Wanted(s) ==
        /\ s.teacherId = t
        /\ q = <<>> \/ ContainsIgnoringCase(s.name, q) \/ ContainsIgnoringCase(s.studentId, q)
        /\ c = <<>> \/ s.course = c
      l == SelectSeq(students, Wanted)
  IN  [i \in DOMAIN l |-> l[i].id]

\* C13: the students listed for the Session's teacher, a search text q and a
\* course filter c are exactly the stored students of that teacher, in stored
\* order, whose name or studentId contains q case-insensitively (all of them
\* when q is empty) and whose course is c (any course when c is empty); a
\* student of another teacher is never listed.
C13_ListedStudents ==
  [][\A q \in SearchInputs, c \in CourseFilterInputs :
       ((HandleFilter(q, c) \/ HandleSearch(q, c)) /\ session # <<>>)
       => /\ rows' = Listed(session[1].id, trim(q), c)
          /\ \A i \in DOMAIN students :
                students[i].teacherId # session[1].id
                => students[i].id \notin Range(rows')]_vars

\* a search for " 2024-00" with the filter "WAD" lists some but not all of the
\* teacher's students, while a student of another teacher matches both
C13_Witness ==
  /\ last.op \in {"filter", "search"}
  /\ last.args = <<trim(S_sp2024_00), S_WAD>>
  /\ session # <<>>
  /\ rows # <<>>
  /\ rows = Listed(session[1].id, last.args[1], last.args[2])
  /\ \E i \in DOMAIN students :
        /\ students[i].teacherId = session[1].id
        /\ students[i].id \notin Range(rows)
  /\ \E i \in DOMAIN students :
        /\ students[i].teacherId # session[1].id
        /\ ContainsIgnoringCase(students[i].studentId, last.args[1])
        /\ students[i].course = last.args[2]

\* the number of rows displayed whose student has this status
Shown(ids, studs, status) ==
  Cardinality({i \in DOMAIN studs : studs[i].id \in Range(ids) /\ studs[i].status = status})

\* C14: whenever the statistics are rendered (with the table, for the list
\* displayed; a page load clears both), total is the length of the list and present, absent, unmarked
\* are the numbers of its records with status Present, Absent, Unmarked (all 0
\* for the empty list); a search or a filter changes no stored state; and the
\* statistics on display always satisfy total = present + absent + unmarked.
C14_StatsCount ==
  [][/\ ((stats' # stats \/ rows' # rows) /\ ~(rows' = <<>> /\ stats' = <<>>))
        => /\ stats' # <<>>
           /\ stats'[1].total = Len(rows')
           /\ stats'[1].present = Shown(rows', students', "Present")
           /\ stats'[1].absent = Shown(rows', students', "Absent")
           /\ stats'[1].unmarked = Shown(rows', students', "Unmarked")
     /\ \A q \in SearchInputs, c \in CourseFilterInputs :
           (HandleFilter(q, c) \/ HandleSearch(q, c))
           => /\ UNCHANGED store
              /\ session # <<>> =>
                   /\ stats' # <<>>
                   /\ stats'[1].total = Len(Listed(session[1].id, trim(q), c))
                   /\ stats'[1].present = Shown(rows', students, "Present")
                   /\ stats'[1].absent = Shown(rows', students, "Absent")
                   /\ stats'[1].unmarked = Shown(rows', students, "Unmarked")
     /\ stats' # <<>>
        => stats'[1].total = stats'[1].present + stats'[1].absent + stats'[1].unmarked]_vars

\* the statistics of a list holding records of all three statuses, as rendered
\* by a search or a filter
C14_Witness ==
  /\ last.op \in {"filter", "search"}
  /\ stats # <<>>
  /\ stats[1].present > 0
  /\ stats[1].absent > 0
  /\ stats[1].unmarked > 0
  /\ stats[1].total = Len(rows)
  /\ stats[1].total < Cardinality({i \in DOMAIN students : students[i].teacherId = session[1].id})

\* the statistics of the empty list
C14_WitnessEmpty ==
  /\ last.op \in {"filter", "search"}
  /\ rows = <<>>
  /\ stats = <<[total |-> 0, present |-> 0, absent |-> 0, unmarked |-> 0]>>

\* a teacher record without its password digest
Public(t) == [id |-> t.id, username |-> t.username, createdAt |-> t.createdAt]

\* C15: there is at most one Session record; it has exactly the fields id,
\* username and createdAt, copied, when it is written, from one Teacher record;
\* and neither the Session nor the value of getCurrentTeacher holds the
\* password digest.
C15_SessionWithoutDigest ==
  [][/\ Len(session') <= 1
     /\ session' # <<>>
        => /\ DOMAIN session'[1] = {"id", "username", "createdAt"}
           /\ \A i \in DOMAIN teachers' : session'[1].username # teachers'[i].password
     /\ (session' # session /\ session' # <<>>)
        => \E i \in DOMAIN teachers : session'[1] = Public(teachers[i])
     /\ LET v == getCurrentTeacher(session', teachers')
        IN  v # <<>>
            => /\ DOMAIN v[1] = {"id", "username", "createdAt"}
               /\ \E i \in DOMAIN teachers' : v[1] = Public(teachers'[i])
               /\ \A i \in DOMAIN teachers' : v[1].username # teachers'[i].password]_vars

\* the Session of a teacher who has just registered, and getCurrentTeacher
\* returning that teacher
C15_Witness ==
  /\ session # <<>>
  /\ session[1].id = generateId(0)
  /\ last.op \in {"login", "autoLogin"}
  /\ getCurrentTeacher(session, teachers) = session

\* C16: a logout, with or without a Session, leaves no Session, so that
\* requireAuth is false right after it, and leaves the teachers and students
\* collections as they were.
C16_LogoutClears ==
  [][Logout
     => /\ session' = <<>>
        /\ ~requireAuth(session')
        /\ last'.outcome = "ok"
        /\ teachers' = teachers
        /\ students' = students]_vars

\* a teacher has just logged out
C16_Witness ==
  /\ last.op = "logout"
  /\ last.id # NullId
  /\ session = <<>>
  /\ ~requireAuth(session)

\* logout was clicked with no Session
C16_WitnessAnonymous ==
  /\ last.op = "logout"
  /\ last.id = NullId
  /\ session = <<>>

\* C17: requireAuth is true exactly when a Session exists and leaves the
\* Session alone: a routing to the dashboard (after a login, after a
\* registration, on a page load) shows the dashboard, with the teacher's
\* students, only if a Session exists at that moment, and otherwise renders
\* nothing (the page stays as it is) and schedules the redirect to login; no
\* step brings up the dashboard without a Session.
C17_DashboardGuard ==
  [][/\ (RegisterRoute \/ LoginRoute \/ PageLoad("dashboard"))
        => /\ session' = session
           /\ requireAuth(session) <=> session # <<>>
           /\ IF session # <<>>
                THEN /\ view' = "dashboard"
                     /\ rows' = Listed(session[1].id, <<>>, <<>>)
                     /\ redirect' => redirect
                ELSE /\ view' = IF PageLoad("dashboard") THEN "none" ELSE view
                     /\ rows' = IF PageLoad("dashboard") THEN <<>> ELSE rows
                     /\ stats' = IF PageLoad("dashboard") THEN <<>> ELSE stats
                     /\ redirect'
     /\ (RegisterRoute \/ LoginRoute) => (last'.outcome = "ok" <=> session # <<>>)
     /\ (view' = "dashboard" /\ view # "dashboard") => session # <<>>]_vars

\* the routing that follows a registration found no Session: the register
\* page stays and the redirect is pending
C17_Witness ==
  /\ last.op = "routeRegister"
  /\ last.outcome = "auth"
  /\ view = "register"
  /\ redirect
  /\ session = <<>>

\* the routing that follows a login found the Session and shows the dashboard
C17_WitnessShown ==
  /\ last.op = "routeLogin"
  /\ last.outcome = "ok"
  /\ view = "dashboard"
  /\ session # <<>>
  /\ rows # <<>>

\* C18: no update is lost: every registration that succeeded is still in the
\* teachers collection (teachers are never removed), and a student just added
\* is in the students collection.
C18_NoLostUpdate ==
  /\ \A r \in registered : \E i \in DOMAIN teachers : teachers[i].id = r.id
  /\ (last.op = "add" /\ last.outcome = "ok")
     => \E i \in DOMAIN students : students[i].id = last.id

\* the stored record with this id, if any
Stored(collection, id) == {i \in DOMAIN collection : collection[i].id = id}

\* C19: a write that the store rejects does not throw: setItem yields false and
\* the value under the key is what it was; add, edit, toggle, delete and
\* register ignore the flag, so each goes on as after a write that landed (its
\* outcome is success, its form or confirmation is closed, the registration is
\* handed on) while the stored collections are unchanged.
C19_RejectedWrite ==
  [][quota =>
       /\ setItem(students, <<>>) = <<students, FALSE>>
       /\ setItem(teachers, <<>>) = <<teachers, FALSE>>
       /\ teachers' = teachers
       /\ students' = students
       /\ session' = session
       /\ \A n \in NameInputs, s \in EditStudentIdInputs, c \in CourseInputs, y \in YearInputs :
            /\ (HandleAddStudent(n, s, c, y) /\ session # <<>>
                /\ ~UsedBy(session[1].id, trim(s)))
               => /\ last'.outcome = "ok"
                  /\ ~addOpen'
                  /\ Stored(students', last'.id) = {}
            /\ (/\ HandleEditStudent(n, s, c, y)
                /\ Stored(students, editId) # {}
                /\ ~\E i \in DOMAIN students :
                      /\ students[i].id # editId
                      /\ students[i].teacherId = getCurrentTeacherId(session)
                      /\ DiffersOnlyInCase(students[i].studentId, trim(s)))
               => /\ last'.outcome = "ok"
                  /\ ~editOpen'
       /\ \A id \in ClickIds :
            (HandleToggleAttendance(id) /\ Stored(students, id) # {})
            => /\ last'.outcome = "ok"
               /\ \A i \in Stored(students', id) : students'[i].status = last'.was
       /\ (HandleDeleteConfirm /\ Stored(students, currentDeleteId) # {})
          => /\ last'.outcome = "ok"
             /\ currentDeleteId' = NullId
             /\ Stored(students', currentDeleteId) # {}
       /\ RegisterResume
          => /\ last'.outcome = "ok"
             /\ Stored(teachers', last'.id) = {}
             /\ \E r \in registered' \ registered : r.id = last'.id
             /\ micro'[Len(micro')].kind = "routeRegister"]_vars

\* with the store full, an add has reported success and its student is not stored
C19_Witness ==
  /\ quota
  /\ last.op = "add"
  /\ last.outcome = "ok"
  /\ ~addOpen
  /\ Stored(students, last.id) = {}

\* with the store full, a registration has reported success and its teacher is
\* not stored
C19_WitnessRegister ==
  /\ quota
  /\ last.op = "registered"
  /\ last.outcome = "ok"
  /\ Stored(teachers, last.id) = {}

\* with the store full, an edit, a toggle and a delete have reported success
\* and the record is as it was
C19_WitnessEdit ==
  /\ quota
  /\ last.op = "edit"
  /\ last.outcome = "ok"
  /\ \E i \in Stored(students, last.id) : students[i].studentId # last.args[1]
C19_WitnessToggle ==
  /\ quota
  /\ last.op = "toggle"
  /\ last.outcome = "ok"
  /\ \E i \in Stored(students, last.id) : students[i].status = last.was
C19_WitnessDelete ==
  /\ quota
  /\ last.op = "delete"
  /\ last.outcome = "ok"
  /\ Stored(students, last.id) # {}

\* C20: every Student's teacherId is the id of a Teacher in the teachers
\* collection (no orphaned students).
C20_NoOrphans ==
  \A i \in DOMAIN students : Stored(teachers, students[i].teacherId) # {}

\* C21: Teacher records are append-only: every Teacher in the collection is in
\* the collection after every step, with the same id, username, digest and
\* createdAt.
C21_TeachersAppendOnly ==
  [][\A i \in DOMAIN teachers : \E j \in DOMAIN teachers' : teachers'[j] = teachers[i]]_vars

\* C22: at most one debounce timer is pending; an input event leaves exactly
\* the timer it sets pending and runs no filter pass; the pass runs when that
\* timer fires, leaves none pending, and lists for the search text and the
\* course filter current when it runs.
C22_Debounce ==
  [][/\ Cardinality(searchTimers') <= 1
     /\ \A q \in SearchInputs :
          HandleSearchInput(q)
          => /\ searchTimers' = {searchTimeout'}
             /\ searchInput' = q
             /\ rows' = rows
             /\ stats' = stats
     /\ \A q \in SearchInputs, c \in CourseFilterInputs :
          HandleSearch(q, c)
          => /\ searchTimers' = {}
             /\ q = searchInput /\ c = courseSelect
             /\ session # <<>> => rows' = Listed(session[1].id, trim(searchInput), courseSelect)]_vars

\* a filter pass has run after a burst (the last input event arrived while a
\* timer was pending) and lists some but not all students of the teacher
C22_Witness ==
  /\ last.op = "search"
  /\ last.was = "pending"
  /\ searchTimers = {}
  /\ session # <<>>
  /\ rows # <<>>
  /\ rows = Listed(session[1].id, trim(searchInput), courseSelect)
  /\ rows # Listed(session[1].id, <<>>, <<>>)

\* a second input event has arrived while the timer of the first was pending
C22_WitnessBurst ==
  /\ last.op = "input"
  /\ last.was = "pending"
  /\ searchTimers = {searchTimeout}

\* C29: after an add, an edit, a toggle or a delete has gone through for a
\* logged-in teacher, the rows shown are those of the teacher's students
\* restricted by the search text and the course filter in the controls.
C29_RenderKeepsFilter ==
  [][(/\ last' # last
      /\ last'.op \in {"add", "edit", "toggle", "delete"}
      /\ last'.outcome = "ok"
      /\ session' # <<>>)
     => rows' = Listed(session[1].id, trim(searchInput), courseSelect)']_vars

\* C23: every notification shown with a positive duration is removed by its
\* auto-dismiss timer: once no timer is pending, none is left in the container.
C23_AutoDismissed ==
  timers = {} => \A i \in DOMAIN alerts : alerts[i].duration <= 0

\* C24: every stored Student has a year that is a positive integer.
C24_YearPositive ==
  \A i \in DOMAIN students : students[i].year \in Nat \ {0}

\* C25: a read never throws; it returns the default when the key is absent or
\* its text does not parse and the stored value otherwise; so getTeachers and
\* getStudents return a list in every state of the store.
C25_ReadsAList ==
  got # <<>>
  => got[1].type = "array"

C26_WitnessEdit ==
  /\ last.op = "edit"
  /\ last.outcome = "ok"
  /\ \E i \in Stored(students, last.id) : students[i].status = "Absent"

\* C27: whenever a Session exists, its id is the id of a Teacher in the
\* teachers collection, and its username is that Teacher's username.
C27_SessionNamesTeacher ==
  session # <<>>
  => \E i \in DOMAIN teachers :
        /\ teachers[i].id = session[1].id
        /\ teachers[i].username = session[1].username

\* C28: once logout has cleared the Session, no Session is established until a
\* handler has run after it: as long as the logout is the last handler run,
\* there is no Session, whatever logins begun before it complete.
C28_LogoutStaysAnonymous ==
  [][last.op = "logout" => session' = <<>>]_vars

====
